---- MODULE Spec2Model ----
(***************************************************************************)
(* Model of dashboard/app.py, a Streamlit dashboard over an air-quality    *)
(* table.  A Streamlit script is re-executed top to bottom on every        *)
(* interaction; only st.session_state survives from one run to the next.   *)
(* One action of Spec is one such run.  The pure parts of the script (row  *)
(* filter, smoothing, threshold notification) are also exercised on their  *)
(* own over bounded inputs by SpecFilter, SpecSmooth and SpecEval.         *)
(*                                                                         *)
(* Concentrations are fixed-point integers in tenths of a unit (150.4 is   *)
(* 1504).  A datetime is a number of hours since day 0.                    *)
(***************************************************************************)
EXTENDS Integers, Sequences, FiniteSets, TLC

VARIABLES
    selected_stations,    \* st.sidebar.multiselect "Pilih Stasiun"
    selected_pollutants,  \* st.sidebar.multiselect "Pilih Polutan"
    date_range,           \* st.sidebar.date_input: tuple of 0, 1 or 2 dates
    smoothing_method,     \* st.sidebar.selectbox
    smoothing_window,     \* st.sidebar.slider
    session,              \* st.session_state: filtered_data, analysis_triggered
    clicked,              \* st.button("Analisis") returned True in the last run
    lastClick,            \* history: the criteria filter_data() read at the last click
    out,                  \* what the last run put on the page
    pc, args, ret         \* harness of the pure-function specifications

vars == <<selected_stations, selected_pollutants, date_range, smoothing_method,
          smoothing_window, session, clicked, lastClick, out, pc, args, ret>>

appVars == <<selected_stations, selected_pollutants, date_range, smoothing_method,
             smoothing_window, session, clicked, lastClick, out>>

fnVars == <<pc, args, ret>>

\* The pure-function specifications leave the session alone, and the session
\* leaves their harness alone.
AppIdle ==
    /\ selected_stations = {}
    /\ selected_pollutants = {}
    /\ date_range = <<>>
    /\ smoothing_method = "SMA"
    /\ smoothing_window = 1
    /\ session = <<>>
    /\ clicked = FALSE
    /\ lastClick = <<>>
    /\ out = <<>>

FnIdle == pc = "app" /\ args = <<>> /\ ret = <<>>

(***************************************************************************)
(* Bounds of the model.                                                    *)
(***************************************************************************)
MaxRows == 3        \* rows of a dataset drawn by SpecFilter
MaxDate == 2        \* dates 1..MaxDate in SpecFilter
MaxLen == 3         \* length of a series drawn by SpecSmooth
MaxCol == 2         \* length of a pollutant column drawn by SpecEval
MaxWindow == 2      \* smoothing windows 1..MaxWindow
MaxSelected == 2    \* pollutants selected at once in Spec

(***************************************************************************)
(* Values.                                                                 *)
(***************************************************************************)
NaN == -1           \* a missing cell of a pollutant column (concentrations are >= 0)

HoursPerDay == 24

IsNaN(v) == v = NaN

\* Series.dt.date: the calendar day of a timestamp, time-of-day dropped.
DtDate(datetime) == datetime \div HoursPerDay

\* Rationals stand for the floats the smoothing produces; 0/0 is NaN.
Rat(n, d) == [num |-> n, den |-> d]

RatNaN == Rat(0, 0)

RatIsNaN(q) == q.den = 0

RatOf(v) == IF IsNaN(v) THEN RatNaN ELSE Rat(v, 1)

RatEq(p, q) == p.num * q.den = q.num * p.den

RatAdd(p, q) == Rat(p.num * q.den + q.num * p.den, p.den * q.den)

RatMul(p, q) == Rat(p.num * q.num, p.den * q.den)

RatDiv(p, q) == Rat(p.num * q.den, p.den * q.num)

(***************************************************************************)
(* filter_data, and the identical expression at lines 119-123.             *)
(***************************************************************************)
\* Variants of the row mask with a seeded fault.
RowMaskExclusiveEnd(row, stations, dr) ==
    /\ row.station \in stations
    /\ DtDate(row.datetime) >= dr[1]
    /\ DtDate(row.datetime) < dr[2]

RowMaskSwapped(row, stations, dr) ==
    /\ row.station \in stations
    /\ \/ /\ DtDate(row.datetime) >= dr[1]
          /\ DtDate(row.datetime) <= dr[2]
       \/ /\ DtDate(row.datetime) >= dr[2]
          /\ DtDate(row.datetime) <= dr[1]

\* The boolean mask of one row (lines 59-61).
RowMask(row, stations, dr) ==
    /\ row.station \in stations
    /\ DtDate(row.datetime) >= dr[1]
    /\ DtDate(row.datetime) <= dr[2]

\* Boolean-mask indexing keeps the rows whose mask is True, in frame order,
\* each with its index label.
filter_data(df, stations, dr) ==
    SelectSeq(df, LAMBDA row : RowMask(row, stations, dr))

\* date_range[0] / date_range[1] raise IndexError on a tuple that is too short.
FilterCall(df, stations, dr) ==
    IF Len(dr) < 2
    THEN [error |-> "IndexError", value |-> <<>>]
    ELSE [error |-> "none", value |-> filter_data(df, stations, dr)]

(***************************************************************************)
(* SpecFilter: the filter over bounded datasets and criteria.              *)
(***************************************************************************)
StationNames == {"A", "B"}

Hours == {0, HoursPerDay - 1}

FDates == 1..MaxDate

FDatetimes == {d * HoursPerDay + h : d \in FDates, h \in Hours}

SeqsUpTo(S, n) == UNION {[1..k -> S] : k \in 0..n}

\* read_csv gives row i the index label i.
Indexed(cells) ==
    [i \in 1..Len(cells) |->
        [idx |-> i, station |-> cells[i][1], datetime |-> cells[i][2]]]

FDateRanges == SeqsUpTo(FDates, 2)

FilterInit ==
    /\ pc = "filter_ready"
    /\ \E cells \in SeqsUpTo(StationNames \X FDatetimes, MaxRows),
          st \in SUBSET StationNames, dr \in FDateRanges :
          args = [data |-> Indexed(cells), stations |-> st, date_range |-> dr]
    /\ ret = [error |-> "none", value |-> <<>>]
    /\ AppIdle

ApplyFilter ==
    /\ pc = "filter_ready"
    /\ pc' = "filter_done"
    /\ ret' = FilterCall(args.data, args.stations, args.date_range)
    /\ UNCHANGED <<args, appVars>>

(***************************************************************************)
(* smooth_data.                                                            *)
(***************************************************************************)
\* Series.rolling(window).mean(): a running sum and a running count of the
\* present values, the oldest value leaving once the window is full; the
\* result is missing while fewer than min_periods values are in the window,
\* and min_periods defaults to the window size.
RECURSIVE RollState(_, _, _)
RollState(series, window, i) ==
    IF i = 0 THEN [sum |-> 0, nobs |-> 0]
    ELSE LET prev == RollState(series, window, i - 1)
             add  == IF IsNaN(series[i]) THEN prev
                     ELSE [sum |-> prev.sum + series[i], nobs |-> prev.nobs + 1]
         IN  IF i > window /\ ~IsNaN(series[i - window])
             THEN [sum |-> add.sum - series[i - window], nobs |-> add.nobs - 1]
             ELSE add

RollingMeanMinPeriods(series, window, minp) ==
    [i \in 1..Len(series) |->
        LET s == RollState(series, window, i)
        IN  IF s.nobs >= minp /\ s.nobs > 0 THEN Rat(s.sum, s.nobs) ELSE RatNaN]

\* Variant with a seeded fault: partial windows are averaged.
RollingMeanPartial(series, window) == RollingMeanMinPeriods(series, window, 1)

RollingMean(series, window) == RollingMeanMinPeriods(series, window, window)

\* Series.ewm(span=window, adjust=False).mean(), ignore_na=False, min_periods=0:
\* alpha = 2/(span+1); the first present value starts the average; a missing
\* value repeats the previous average and ages its weight by (1-alpha).
EwmAlpha(span) == Rat(2, span + 1)

EwmOldWtFactor(span) == Rat(span - 1, span + 1)

RECURSIVE EwmState(_, _, _)
EwmState(series, span, i) ==
    IF i = 1 THEN [weighted |-> RatOf(series[1]), old_wt |-> Rat(1, 1)]
    ELSE LET prev == EwmState(series, span, i - 1)
             cur  == RatOf(series[i])
             aged == RatMul(prev.old_wt, EwmOldWtFactor(span))
         IN  IF ~RatIsNaN(prev.weighted)
             THEN IF ~RatIsNaN(cur)
                  THEN [weighted |->
                            IF RatEq(prev.weighted, cur) THEN prev.weighted
                            ELSE RatDiv(RatAdd(RatMul(aged, prev.weighted),
                                               RatMul(EwmAlpha(span), cur)),
                                        RatAdd(aged, EwmAlpha(span))),
                        old_wt |-> Rat(1, 1)]
                  ELSE [weighted |-> prev.weighted, old_wt |-> aged]
             ELSE [weighted |-> cur, old_wt |-> prev.old_wt]

EwmMean(series, span) ==
    [i \in 1..Len(series) |-> EwmState(series, span, i).weighted]

smooth_data(series, method, window) ==
    IF method = "EMA" THEN EwmMean(series, window)
    ELSE IF method = "SMA" THEN RollingMean(series, window)
    ELSE [i \in 1..Len(series) |-> RatOf(series[i])]

(***************************************************************************)
(* SpecSmooth: smooth_data over bounded series, methods and windows.       *)
(***************************************************************************)
SampleValues == {NaN, 0, 1, 3}

Methods == {"EMA", "SMA"}

SmoothInit ==
    /\ pc = "smooth_ready"
    /\ \E x \in SeqsUpTo(SampleValues, MaxLen), m \in Methods \cup {"other"},
          w \in 1..MaxWindow :
          args = [series |-> x, method |-> m, window |-> w]
    /\ ret = <<>>
    /\ AppIdle

ApplySmooth ==
    /\ pc = "smooth_ready"
    /\ pc' = "smooth_done"
    /\ ret' = smooth_data(args.series, args.method, args.window)
    /\ UNCHANGED <<args, appVars>>
(***************************************************************************)
(* The notification loop (lines 251-264) for one pollutant.                *)
(***************************************************************************)
THRESHOLDS ==
    [PM25 |-> 1504, NO2 |-> 2000, PM10 |-> 3500, SO2 |-> 1800, CO |-> 80000,
     O3 |-> 2350]

PollutantOptions == {"PM25", "PM10", "SO2", "NO2", "CO", "O3"}

\* Series.max() skips missing values; it is missing when nothing is present.
RECURSIVE ColMax(_)
ColMax(col) ==
    IF col = <<>> THEN NaN
    ELSE LET rest == ColMax(Tail(col))
         IN  IF IsNaN(Head(col)) THEN rest
             ELSE IF IsNaN(rest) \/ Head(col) > rest THEN Head(col)
             ELSE rest

\* Variant with a seeded fault: reaching the threshold counts as exceeding it.
ExceedsOrEqual(max_value, threshold) == ~IsNaN(max_value) /\ max_value >= threshold

\* max_value > THRESHOLDS[pollutant]; a comparison with NaN is False.
Exceeds(max_value, threshold) == ~IsNaN(max_value) /\ max_value > threshold

\* f"{v:.2f}": a value in tenths printed with two decimals, as hundredths.
Fmt2f(v) == v * 10

\* What the loop body puts on the page for one pollutant:
\*   "error_exceeds"  st.error "melebihi batas aman" and st.metric(value, delta)
\*   "success_safe"   st.success "dalam batas aman"
\*   "nothing"        no element
Notification(pollutant, thresholds, col) ==
    IF pollutant \in DOMAIN thresholds
    THEN LET max_value == ColMax(col)
         IN  IF Exceeds(max_value, thresholds[pollutant])
             THEN [kind |-> "error_exceeds", value |-> Fmt2f(max_value),
                   delta |-> Fmt2f(max_value - thresholds[pollutant])]
             ELSE [kind |-> "nothing", value |-> NaN, delta |-> NaN]
    ELSE [kind |-> "success_safe", value |-> NaN, delta |-> NaN]

(***************************************************************************)
(* SpecEval: the loop body over bounded columns and over threshold tables  *)
(* ("example values, can be adjusted"): the table of the source and the    *)
(* tables that lack one of its entries.                                    *)
(***************************************************************************)
ThresholdTables ==
    {THRESHOLDS} \cup
    {[q \in DOMAIN THRESHOLDS \ {p} |-> THRESHOLDS[q]] : p \in DOMAIN THRESHOLDS}

EvalValues ==
    {NaN, 0} \cup UNION {{THRESHOLDS[p], THRESHOLDS[p] + 1} : p \in DOMAIN THRESHOLDS}

EvalInit ==
    /\ pc = "eval_ready"
    /\ \E th \in ThresholdTables, p \in PollutantOptions,
          col \in SeqsUpTo(EvalValues, MaxCol) :
          args = [thresholds |-> th, pollutant |-> p, column |-> col]
    /\ ret = [kind |-> "nothing", value |-> NaN, delta |-> NaN]
    /\ AppIdle

ApplyEval ==
    /\ pc = "eval_ready"
    /\ pc' = "eval_done"
    /\ ret' = Notification(args.pollutant, args.thresholds, args.column)
    /\ UNCHANGED <<args, appVars>>
(***************************************************************************)
(* The script: one run, top to bottom.                                     *)
(***************************************************************************)
PollutantColumns == <<"PM25", "PM10", "SO2", "NO2", "CO", "O3">>

Obs(i, station, datetime, cells) ==
    [idx |-> i, station |-> station, datetime |-> datetime,
     vals |-> [k \in 1..Len(PollutantColumns) |-> cells[k]]]

Val(row, pollutant) ==
    row.vals[CHOOSE k \in 1..Len(PollutantColumns) : PollutantColumns[k] = pollutant]

\* pd.read_csv("data/all_stations_cleaned.csv"): a sample table of two
\* stations over two days, with readings at, above and below the thresholds
\* and an all-missing O3 column.
data ==
    << Obs(1, "A", 1 * HoursPerDay,      <<1504, 100,  NaN,  2001, 0,     NaN>>),
       Obs(2, "B", 1 * HoursPerDay + 23, <<2000, 3500, 1800, NaN,  80001, NaN>>),
       Obs(3, "A", 2 * HoursPerDay + 23, <<NaN,  3501, 10,   2000, 7000,  NaN>>),
       Obs(4, "B", 2 * HoursPerDay,      <<1503, NaN,  20,   1999, NaN,   NaN>>) >>

\* data["station"].unique()
StationOptions == {data[i].station : i \in 1..Len(data)}

DataDates == {DtDate(data[i].datetime) : i \in 1..Len(data)}

MinOf(S) == CHOOSE x \in S : \A y \in S : x <= y

MaxOf(S) == CHOOSE x \in S : \A y \in S : x >= y

\* What st.sidebar.date_input can return for a range: a tuple that is empty,
\* holds the start alone (the end not picked yet), or holds both dates.
DateRanges == SeqsUpTo(DataDates, 2)

SliderValues == 1..MaxWindow

DefaultWindow == IF 90 \in SliderValues THEN 90 ELSE MaxWindow

Column(df, pollutant) == [i \in 1..Len(df) |-> Val(df[i], pollutant)]

\* DataFrame.to_csv(index=False): a header row, then one line per row with
\* the index label left out; a missing cell is written as the empty string.
CsvCell(v) == IF IsNaN(v) THEN "" ELSE ToString(v)

CsvHeader == <<"station", "datetime">> \o PollutantColumns

to_csv(df) ==
    <<CsvHeader>> \o
    [i \in 1..Len(df) |->
        <<df[i].station, ToString(df[i].datetime)>> \o
        [k \in 1..Len(PollutantColumns) |-> CsvCell(df[i].vals[k])]]

NoDownload == <<>>

\* Variant with a seeded fault: a click toggles the flag.
analyze_data_toggle(ss, stations, dr) ==
    [filtered_data |-> filter_data(data, stations, dr),
     analysis_triggered |-> ~ss.analysis_triggered]

analyze_data(ss, stations, dr) ==
    [filtered_data |-> filter_data(data, stations, dr),
     analysis_triggered |-> TRUE]

\* DataFrame.corr() over the selected columns: one entry per pair of columns,
\* from the rows where both are present.  The coefficient itself is not
\* modelled; an entry is the number of rows it is computed from.
Corr(df, pollutants) ==
    [pq \in pollutants \X pollutants |->
        Cardinality({i \in 1..Len(df) :
            ~IsNaN(Val(df[i], pq[1])) /\ ~IsNaN(Val(df[i], pq[2]))})]

\* DataFrame.describe(): count, min and max of the present values (mean, std
\* and the quartiles are not modelled).
RECURSIVE ColMin(_)
ColMin(col) ==
    IF col = <<>> THEN NaN
    ELSE LET rest == ColMin(Tail(col))
         IN  IF IsNaN(Head(col)) THEN rest
             ELSE IF IsNaN(rest) \/ Head(col) < rest THEN Head(col)
             ELSE rest

Describe(df, pollutants) ==
    [p \in pollutants |->
        LET col == Column(df, p)
        IN  [count |-> Cardinality({i \in 1..Len(col) : ~IsNaN(col[i])}),
             min |-> ColMin(col), max |-> ColMax(col)]]

\* Variant with a seeded fault: one selection is enough to start the analysis.
HasSelectionEither(pollutants, stations) ==
    Cardinality(pollutants) > 0 \/ Cardinality(stations) > 0

\* len(selected_pollutants) > 0 and len(selected_stations)   (line 144)
HasSelection(pollutants, stations) ==
    Cardinality(pollutants) > 0 /\ Cardinality(stations) > 0

Nothing == [x \in {} |-> 0]

\* Lines 143-272, reading the session state as the button handler left it.
MainContent(ss, stations, pollutants, method, window) ==
    IF ss.analysis_triggered
    THEN IF HasSelection(pollutants, stations)
         THEN LET df == ss.filtered_data
              IN  [status |-> "analysis",
                   messages |-> {"success_analysis_started"},
                   stages |-> {"smooth", "aggregate", "threshold"},
                   charts |-> {"trend", "bar", "heatmap"},
                   view |-> df,
                   trend |-> [ps \in pollutants \X stations |->
                       smooth_data(
                           Column(SelectSeq(df, LAMBDA r : r.station = ps[2]), ps[1]),
                           method, window)],
                   corr |-> Corr(df, pollutants),
                   summary |-> Describe(df, pollutants),
                   notifications |-> [p \in pollutants |->
                       Notification(p, THRESHOLDS, Column(df, p))]]
         ELSE [status |-> "warning", messages |-> {"warning_no_data_selected"},
               stages |-> {}, charts |-> {}, view |-> <<>>, trend |-> Nothing,
               corr |-> Nothing, summary |-> Nothing, notifications |-> Nothing]
    ELSE [status |-> "info", messages |-> {"info_pick_filters_and_click"},
          stages |-> {}, charts |-> {}, view |-> <<>>, trend |-> Nothing,
          corr |-> Nothing, summary |-> Nothing, notifications |-> Nothing]

\* One run of the script (lines 93-272) from session state ss, with the
\* widgets' values and whether the run was started by the Analisis button.
\* Result: the session state it leaves and the page it renders.
Script(ss, stations, pollutants, dr, method, window, click) ==
    LET filtered == FilterCall(data, stations, dr)            \* lines 119-123
    IN  IF filtered.error # "none"
        THEN [session |-> ss,
              page |-> [status |-> "error", messages |-> {filtered.error},
                        stages |-> {"filter"}, charts |-> {}, view |-> <<>>,
                        trend |-> Nothing, corr |-> Nothing, summary |-> Nothing,
                        notifications |-> Nothing, download |-> NoDownload]]
        ELSE LET download == to_csv(ss.filtered_data)         \* lines 130-135
                 after == IF click THEN analyze_data(ss, stations, dr)   \* 139-140
                          ELSE ss
                 main == MainContent(after, stations, pollutants, method, window)
             IN  [session |-> after,
                  page |-> [status |-> main.status, messages |-> main.messages,
                            stages |-> {"filter"} \cup main.stages,
                            charts |-> main.charts, view |-> main.view,
                            trend |-> main.trend, corr |-> main.corr,
                            summary |-> main.summary,
                            notifications |-> main.notifications,
                            download |-> download]]

(***************************************************************************)
(* Spec: a session of the dashboard.                                       *)
(***************************************************************************)
\* Lines 93-97, in the first run of a session.
SessionInit == [filtered_data |-> data, analysis_triggered |-> FALSE]

NoClick == [stations |-> {}, date_range |-> <<>>]

Run(stations, pollutants, dr, method, window, click) ==
    LET r == Script(session, stations, pollutants, dr, method, window, click)
    IN  /\ selected_stations' = stations
        /\ selected_pollutants' = pollutants
        /\ date_range' = dr
        /\ smoothing_method' = method
        /\ smoothing_window' = window
        /\ session' = r.session
        /\ out' = r.page
        /\ clicked' = click
        /\ lastClick' = IF click /\ r.page.status # "error"
                        THEN [stations |-> stations, date_range |-> dr]
                        ELSE lastClick
        /\ UNCHANGED fnVars

Init ==
    /\ selected_stations = {}
    /\ selected_pollutants = {}
    /\ date_range = <<MinOf(DataDates), MaxOf(DataDates)>>
    /\ smoothing_method = "SMA"
    /\ smoothing_window = DefaultWindow
    /\ session = SessionInit
    /\ clicked = FALSE
    /\ lastClick = NoClick
    /\ out = Script(SessionInit, {}, {}, <<MinOf(DataDates), MaxOf(DataDates)>>,
                    "SMA", DefaultWindow, FALSE).page
    /\ FnIdle

\* The multiselects add or remove one option per interaction.
ToggleStation ==
    \E s \in StationOptions :
        LET sel == IF s \in selected_stations THEN selected_stations \ {s}
                   ELSE selected_stations \cup {s}
        IN  /\ sel \subseteq StationOptions
            /\ Run(sel, selected_pollutants, date_range, smoothing_method,
                   smoothing_window, FALSE)

TogglePollutant ==
    \E p \in PollutantOptions :
        LET sel == IF p \in selected_pollutants THEN selected_pollutants \ {p}
                   ELSE selected_pollutants \cup {p}
        IN  /\ Cardinality(sel) <= MaxSelected
            /\ Run(selected_stations, sel, date_range, smoothing_method,
                   smoothing_window, FALSE)

PickDateRange ==
    \E dr \in DateRanges :
        /\ dr # date_range
        /\ Run(selected_stations, selected_pollutants, dr, smoothing_method,
               smoothing_window, FALSE)

SelectMethod ==
    \E m \in Methods :
        /\ m # smoothing_method
        /\ Run(selected_stations, selected_pollutants, date_range, m,
               smoothing_window, FALSE)

SlideWindow ==
    \E w \in SliderValues :
        /\ w # smoothing_window
        /\ Run(selected_stations, selected_pollutants, date_range,
               smoothing_method, w, FALSE)

\* The buttons are on the page only if the last run got as far as line 126.
ClickAnalisis ==
    /\ out.status # "error"
    /\ Run(selected_stations, selected_pollutants, date_range, smoothing_method,
           smoothing_window, TRUE)

ClickUnduh ==
    /\ out.download # NoDownload
    /\ Run(selected_stations, selected_pollutants, date_range, smoothing_method,
           smoothing_window, FALSE)

Next ==
    \/ ToggleStation
    \/ TogglePollutant
    \/ PickDateRange
    \/ SelectMethod
    \/ SlideWindow
    \/ ClickAnalisis
    \/ ClickUnduh

Spec == Init /\ [][Next]_vars

(***************************************************************************)
(* The specifications of the pure parts.                                   *)
(***************************************************************************)
SpecFilter == FilterInit /\ [][ApplyFilter]_vars

SpecSmooth == SmoothInit /\ [][ApplySmooth]_vars

SpecEval == EvalInit /\ [][ApplyEval]_vars
(***************************************************************************)
(* Properties.                                                             *)
(***************************************************************************)
RECURSIVE SumOver(_, _, _)
SumOver(x, lo, hi) == IF lo > hi THEN 0 ELSE x[lo] + SumOver(x, lo + 1, hi)

\* The calendar day d holds the timestamps of its 24 hours.
OnDay(datetime, d) ==
    d * HoursPerDay <= datetime /\ datetime < (d + 1) * HoursPerDay

\* C1: for a date pair (start, end) the filter raises nothing and returns
\* exactly the dataset rows whose station is selected and whose day lies in
\* start..end (both ends included), each once, unaltered, in dataset order.
C1_FilterIsExactStableSelection ==
    (pc = "filter_done" /\ Len(args.date_range) = 2) =>
        LET D == args.data
            res == ret.value
            Wanted == {i \in 1..Len(D) :
                          /\ D[i].station \in args.stations
                          /\ \E d \in args.date_range[1]..args.date_range[2] :
                                 OnDay(D[i].datetime, d)}
        IN  /\ ret.error = "none"
            /\ \A k \in 1..Len(res) :
                   res[k].idx \in 1..Len(D) /\ res[k] = D[res[k].idx]
            /\ \A j, k \in 1..Len(res) : j < k => res[j].idx < res[k].idx
            /\ {res[k].idx : k \in 1..Len(res)} = Wanted

\* A three-row dataset of which the filter drops the middle row and keeps the
\* others, the last one in the last hour of the end date.
C1_Witness ==
    /\ pc = "filter_done"
    /\ Len(args.date_range) = 2
    /\ Len(args.data) = 3
    /\ Len(ret.value) = 2
    /\ ret.value[1].idx = 1
    /\ ret.value[2].idx = 3
    /\ ret.value[2].datetime = args.date_range[2] * HoursPerDay + (HoursPerDay - 1)

\* C4: a date range whose start is after its end raises nothing and selects
\* no row, whatever the dataset and the stations.
C4_InvertedRangeIsEmpty ==
    (/\ pc = "filter_done"
     /\ Len(args.date_range) = 2
     /\ args.date_range[1] > args.date_range[2])
        => (ret.error = "none" /\ ret.value = <<>>)

\* An inverted range over a dataset with a selected station's row on a day
\* between the two dates.
C4_Witness ==
    /\ pc = "filter_done"
    /\ Len(args.date_range) = 2
    /\ args.date_range[1] > args.date_range[2]
    /\ \E i \in 1..Len(args.data) :
           /\ args.data[i].station \in args.stations
           /\ \E d \in args.date_range[2]..args.date_range[1] :
                  OnDay(args.data[i].datetime, d)
    /\ ret.value = <<>>

\* C8: SMA keeps the length; element i (counted from 1) is missing for i < w
\* and is the arithmetic mean of x[i-w+1..i] for i >= w, a window that holds a
\* missing value having a missing mean.
C8_SmaIsTrailingWindowMean ==
    (pc = "smooth_done" /\ args.method = "SMA") =>
        LET x == args.series
            w == args.window
        IN  /\ Len(ret) = Len(x)
            /\ \A i \in 1..Len(x) :
                   IF i >= w /\ \A j \in (i - w + 1)..i : ~IsNaN(x[j])
                   THEN /\ ~RatIsNaN(ret[i])
                        /\ ret[i].num * w = SumOver(x, i - w + 1, i) * ret[i].den
                   ELSE RatIsNaN(ret[i])

\* A full series of three unequal values under a window of two.
C8_Witness ==
    /\ pc = "smooth_done"
    /\ args.method = "SMA"
    /\ args.window = 2
    /\ args.series = <<1, 3, 0>>
    /\ RatIsNaN(ret[1])
    /\ RatEq(ret[2], Rat(2, 1))
    /\ RatEq(ret[3], Rat(3, 2))

\* C7: for a pollutant with a threshold, the breach warning is shown exactly
\* when the column has a present value and its greatest present value is
\* strictly above the threshold; the warning then carries that maximum and the
\* excess maximum - threshold (both printed with two decimals).
C7_BreachIffMaxAboveThreshold ==
    (pc = "eval_done" /\ args.pollutant \in DOMAIN args.thresholds) =>
        LET present == {args.column[i] : i \in 1..Len(args.column)} \ {NaN}
            threshold == args.thresholds[args.pollutant]
            breached == present # {} /\ MaxOf(present) > threshold
        IN  /\ (ret.kind = "error_exceeds") <=> breached
            /\ breached =>
                   /\ ret.value = 10 * MaxOf(present)
                   /\ ret.delta = 10 * (MaxOf(present) - threshold)

\* A column holding the threshold itself and the next value above it.
C7_Witness ==
    /\ pc = "eval_done"
    /\ args.pollutant = "PM25"
    /\ args.thresholds = THRESHOLDS
    /\ args.column = <<THRESHOLDS.PM25, THRESHOLDS.PM25 + 1>>
    /\ ret.kind = "error_exceeds"
    /\ ret.delta = 10

C2_DownloadIsCurrentFilteredView ==
    (out.status # "error") =>
        out.download = to_csv(filter_data(data, selected_stations, date_range))

\* C3: the view the rendered analysis is computed from is the filter result
\* for the stations and date range of that run.
C3_AnalysisViewIsFresh ==
    (out.status = "analysis") =>
        out.view = filter_data(data, selected_stations, date_range)

NothingRendered ==
    /\ out.charts = {}
    /\ out.trend = Nothing
    /\ out.corr = Nothing
    /\ out.summary = Nothing
    /\ out.notifications = Nothing

C9_CorrelationNeedsTwoPollutants ==
    /\ (/\ session.analysis_triggered
        /\ out.status # "error"
        /\ Cardinality(selected_pollutants) < 2)
           => (/\ "warning_no_data_selected" \in out.messages
               /\ "heatmap" \notin out.charts
               /\ out.corr = Nothing)
    /\ (out.corr # Nothing) => Cardinality(selected_pollutants) >= 2

SnapshotIsLastClick ==
    session.filtered_data =
        IF session.analysis_triggered
        THEN filter_data(data, lastClick.stations, lastClick.date_range)
        ELSE data

\* C10: a run without a click leaves st.session_state as it was; the snapshot
\* is the whole dataset before the first click and afterwards the filter
\* result for the criteria of the most recent click; analysis_triggered never
\* goes back to false.
C10_SessionChangesOnlyOnClick ==
    [][/\ ~clicked' => session' = session
       /\ session.analysis_triggered => session'.analysis_triggered
       /\ SnapshotIsLastClick
       /\ SnapshotIsLastClick']_vars

\* After a click the stations were changed without a new click: the snapshot
\* kept is no longer the filter result of the current criteria.
C10_Witness ==
    /\ session.analysis_triggered
    /\ ~clicked
    /\ Len(date_range) = 2
    /\ lastClick.stations # selected_stations
    /\ session.filtered_data # filter_data(data, selected_stations, date_range)
    /\ session.filtered_data # data
====
